---- MODULE Spec2Model ----
(***************************************************************************)
(* A model of the Flowise adapter for OpenWebUI (src/flowise.py): the      *)
(* content normalizer, the upload extraction, the request builder and the  *)
(* response decoders of class Pipe.                                        *)
(*                                                                         *)
(* Python values are tagged one-field records, so that values of different *)
(* Python types can be compared: S(x) a str, None, L(seq) a list, D(f) a   *)
(* dict (f a function from key strings to values), B(b) a bool.            *)
(***************************************************************************)
EXTENDS Integers, Sequences, FiniteSets, TLC

VARIABLES
    scenario,        \* which entry point this behaviour exercises
    pc,              \* position of the running call
    valves,          \* self.valves: the configuration the call reads
    input,           \* the arguments of the call
    output,          \* what the call has returned
    request,         \* the POST the call has sent to the backend, if any
    response,        \* the backend's reply to it
    status_calls,    \* the emit_status calls made so far
    emitted,         \* the status events the sink has accepted so far
    last_emit_time,  \* self.last_emit_time
    now,             \* time.time()
    gen,             \* position of the generator _handle_streaming_response returned
    consumed,        \* number of lines the generator has read from response.iter_lines
    yielded,         \* the items the generator has yielded so far
    tasks            \* the emit_status tasks the generator has created

ioVars == <<request, response, status_calls, emitted, last_emit_time, now>>
streamVars == <<gen, consumed, yielded, tasks>>
vars == <<scenario, pc, valves, input, output, ioVars, streamVars>>

-----------------------------------------------------------------------------
(* Python values *)

S(x) == [s |-> x]
None == [none |-> TRUE]
L(q) == [l |-> q]
D(f) == [d |-> f]
B(b) == [b |-> b]
N(n) == [n |-> n]

IsStr(v) == DOMAIN v = {"s"}
IsNone(v) == DOMAIN v = {"none"}
IsList(v) == DOMAIN v = {"l"}
IsDict(v) == DOMAIN v = {"d"}
IsBool(v) == DOMAIN v = {"b"}
IsNum(v) == DOMAIN v = {"n"}

\* bool(v)
Truthy(v) ==
    CASE IsStr(v) -> v.s # ""
      [] IsNone(v) -> FALSE
      [] IsList(v) -> Len(v.l) > 0
      [] IsDict(v) -> DOMAIN v.d # {}
      [] IsBool(v) -> v.b
      [] IsNum(v) -> v.n # 0

\* dict.get(k, default)
Get(v, k, default) == IF k \in DOMAIN v.d THEN v.d[k] ELSE default

\* a or b
Or(a, b) == IF Truthy(a) THEN a ELSE b

\* str(v), for the values a content part or a content field can be
ToStr(v) ==
    CASE IsStr(v) -> v.s
      [] IsNone(v) -> "None"
      [] IsBool(v) -> IF v.b THEN "True" ELSE "False"

-----------------------------------------------------------------------------
(* Python strings *)

IsSpace(c) == c \in {" ", "\n", "\t", "\r"}

StartsWith(str, prefix) ==
    /\ Len(str) >= Len(prefix)
    /\ SubSeq(str, 1, Len(prefix)) = prefix

\* str[n:]
DropFirst(str, n) == IF Len(str) <= n THEN "" ELSE SubSeq(str, n + 1, Len(str))

RECURSIVE LStrip(_)
LStrip(str) ==
    IF Len(str) = 0 THEN ""
    ELSE IF IsSpace(SubSeq(str, 1, 1)) THEN LStrip(DropFirst(str, 1))
    ELSE str

RECURSIVE RStrip(_)
RStrip(str) ==
    IF Len(str) = 0 THEN ""
    ELSE IF IsSpace(SubSeq(str, Len(str), Len(str)))
         THEN RStrip(SubSeq(str, 1, Len(str) - 1))
    ELSE str

\* str.strip()
Strip(str) == RStrip(LStrip(str))

\* the index of the first occurrence of character c in str, 0 when there is none
RECURSIVE IndexFrom(_, _, _)
IndexFrom(str, c, i) ==
    IF i > Len(str) THEN 0
    ELSE IF SubSeq(str, i, i) = c THEN i
    ELSE IndexFrom(str, c, i + 1)

IndexOf(str, c) == IndexFrom(str, c, 1)

\* c in str
Contains(str, c) == IndexOf(str, c) # 0

\* sep.join(parts)
RECURSIVE Join(_, _)
Join(sep, parts) ==
    IF Len(parts) = 0 THEN ""
    ELSE IF Len(parts) = 1 THEN parts[1]
    ELSE parts[1] \o sep \o Join(sep, Tail(parts))

\* the concatenation of a sequence of sequences
RECURSIVE Flatten(_)
Flatten(qq) == IF Len(qq) = 0 THEN <<>> ELSE Head(qq) \o Flatten(Tail(qq))

\* all sequences over set of length at most n
SeqsUpTo(set, n) == UNION {[1..k -> set] : k \in 0..n}

-----------------------------------------------------------------------------
(* Content normalizer: Pipe._process_message_content *)

ImagePlaceholder == "[Image content]"
ParagraphSep == "\n\n"

\* what one item of a content list appends to processed_content
ProcessedItem(item) ==
    IF IsDict(item)
    THEN IF Get(item, "type", None) = S("text") THEN <<Get(item, "text", S(""))>>
         ELSE IF Get(item, "type", None) = S("image_url") THEN <<S(ImagePlaceholder)>>
         ELSE <<>>
    ELSE <<S(ToStr(item))>>

NonEmptyStr(str) == str # ""

\* a plausible slip: the fragments are joined without skipping the empty ones
_process_message_content_KeepEmpty(message) ==
    LET content == Get(message, "content", S(""))
    IN  IF IsList(content)
        THEN LET processed_content ==
                     Flatten([i \in 1..Len(content.l) |-> ProcessedItem(content.l[i])])
                 strs == [i \in 1..Len(processed_content) |-> ToStr(processed_content[i])]
             IN  Join(ParagraphSep, strs)
        ELSE IF Truthy(content) THEN ToStr(content) ELSE ""

_process_message_content(message) ==
    LET content == Get(message, "content", S(""))
    IN  IF IsList(content)
        THEN LET processed_content ==
                     Flatten([i \in 1..Len(content.l) |-> ProcessedItem(content.l[i])])
                 strs == [i \in 1..Len(processed_content) |-> ToStr(processed_content[i])]
             IN  Join(ParagraphSep, SelectSeq(strs, NonEmptyStr))
        ELSE IF Truthy(content) THEN ToStr(content) ELSE ""

-----------------------------------------------------------------------------
(* Attachment extraction: Pipe._extract_uploads and its normalize_upload *)

\* u.get(k): None when the key is missing
GetOrNone(v, k) == Get(v, k, None)

IsHttpUri(str) == StartsWith(str, "http://") \/ StartsWith(str, "https://")
IsDataUri(str) == StartsWith(str, "data:")

\* the record of a normalized upload; NoUpload stands for the None normalize_upload returns
NoUpload == [none |-> TRUE]

UploadResult(u, data_val, type_val) ==
    LET mime == Or(GetOrNone(u, "mime"), GetOrNone(u, "mimetype"))
        base == [k \in {"data", "type"} |-> IF k = "data" THEN S(data_val) ELSE type_val]
        named == IF Truthy(GetOrNone(u, "name"))
                 THEN [k \in DOMAIN base \cup {"name"} |->
                          IF k = "name" THEN GetOrNone(u, "name") ELSE base[k]]
                 ELSE base
        mimed == IF Truthy(mime)
                 THEN [k \in DOMAIN named \cup {"mime"} |->
                          IF k = "mime" THEN mime ELSE named[k]]
                 ELSE named
    IN  D(mimed)

\* u.get("data") or u.get("url") or u.get("data_url") or u.get("base64") or u.get("b64")
UploadDataVal(u) ==
    Or(Or(Or(Or(GetOrNone(u, "data"), GetOrNone(u, "url")), GetOrNone(u, "data_url")),
          GetOrNone(u, "base64")),
       GetOrNone(u, "b64"))

\* normalize_upload from the MIME-hint step on: the candidate has passed the URL policy
NormalizeAccepted(u, data_val) ==
    LET is_data_uri == IsDataUri(data_val)
        is_http_uri == IsHttpUri(data_val)
        mime_hint == Or(GetOrNone(u, "mime"), GetOrNone(u, "mimetype"))
        wrapped ==
            IF ~is_data_uri /\ ~is_http_uri
               /\ IsStr(mime_hint) /\ Contains(mime_hint.s, "/")
            THEN "data:" \o mime_hint.s \o ";base64," \o data_val
            ELSE data_val
        type0 == Or(GetOrNone(u, "type"), S(valves.default_upload_type))
        type_val ==
            IF type0 = S("file") THEN S(valves.default_upload_type)
            ELSE IF type0 = S("url") /\ is_http_uri
                 THEN IF valves.allow_remote_file_urls
                      THEN S("url") ELSE S(valves.default_upload_type)
            ELSE type0
    IN  UploadResult(u, wrapped, type_val)

\* a plausible slip: the remote-URL policy looks at the "data" field only
normalize_upload_DataFieldOnly(u) ==
    IF ~IsDict(u) THEN NoUpload
    ELSE IF ~IsStr(UploadDataVal(u)) THEN NoUpload
    ELSE IF IsStr(GetOrNone(u, "data")) /\ IsHttpUri(GetOrNone(u, "data").s)
            /\ ~valves.allow_remote_file_urls
    THEN NoUpload
    ELSE NormalizeAccepted(u, UploadDataVal(u).s)

normalize_upload(u) ==
    IF ~IsDict(u) THEN NoUpload
    ELSE IF ~IsStr(UploadDataVal(u)) THEN NoUpload
    ELSE IF ~IsDataUri(UploadDataVal(u).s) /\ IsHttpUri(UploadDataVal(u).s)
            /\ ~valves.allow_remote_file_urls
    THEN NoUpload
    ELSE NormalizeAccepted(u, UploadDataVal(u).s)

\* the normalized uploads of a list of candidates, the dropped ones left out
NormalizedList(cands) ==
    LET IsKept(r) == r # NoUpload
    IN  SelectSeq([i \in 1..Len(cands) |-> normalize_upload(cands[i])], IsKept)

\* url_val.split(":", 1)[1].split(";", 1)[0] of a data: URI
MimeOfDataUri(url_val) ==
    LET rest == DropFirst(url_val, IndexOf(url_val, ":"))
        semi == IndexOf(rest, ";")
    IN  IF semi = 0 THEN rest ELSE SubSeq(rest, 1, semi - 1)

\* the uploads one item of a content list adds
ContentItemUploads(item) ==
    IF ~IsDict(item) THEN <<>>
    ELSE
    LET item_type == GetOrNone(item, "type")
    IN  IF item_type \in {S("file"), S("input_file"), S("data_url")}
        THEN NormalizedList(<<item>>)
        ELSE IF item_type = S("image_url")
        THEN LET image_url == GetOrNone(item, "image_url")
                 url_val == IF IsDict(image_url) THEN GetOrNone(image_url, "url")
                            ELSE image_url
             IN  IF ~IsStr(url_val) THEN <<>>
                 ELSE
                 LET type_pref == IF IsHttpUri(url_val.s) THEN S("url")
                                  ELSE S(valves.default_upload_type)
                     normalized == normalize_upload(D([data |-> url_val, type |-> type_pref]))
                 IN  IF normalized = NoUpload THEN <<>>
                     ELSE
                     LET r == normalized.d
                         withMime == IsDataUri(url_val.s)
                         keys == DOMAIN r \cup {"name"}
                                 \cup (IF withMime THEN {"mime"} ELSE {})
                     IN  <<D([k \in keys |->
                               IF k \in DOMAIN r THEN r[k]
                               ELSE IF k = "name" THEN S("image")
                               ELSE S(MimeOfDataUri(url_val.s))])>>
        ELSE <<>>

\* the uploads one message adds: its uploads list, then its inline content parts
MessageUploads(msg) ==
    LET ups == GetOrNone(msg, "uploads")
        content == GetOrNone(msg, "content")
    IN  (IF IsList(ups) THEN NormalizedList(ups.l) ELSE <<>>)
        \o (IF IsList(content)
            THEN Flatten([i \in 1..Len(content.l) |-> ContentItemUploads(content.l[i])])
            ELSE <<>>)

_extract_uploads(body, messages) ==
    LET top_level_uploads == GetOrNone(body, "uploads")
    IN  (IF IsList(top_level_uploads) THEN NormalizedList(top_level_uploads.l) ELSE <<>>)
        \o Flatten([i \in 1..Len(messages) |-> MessageUploads(messages[i])])

-----------------------------------------------------------------------------
(* Configuration: Pipe.Valves with its defaults *)

DefaultValves ==
    [ flowise_url |-> "http://flowise.local",
      flowise_api_key |-> "key",
      enable_status_indicator |-> TRUE,
      emit_interval |-> 1,
      timeout |-> 600,
      allow_remote_file_urls |-> FALSE,
      default_upload_type |-> "file:full",
      force_override_history |-> TRUE,
      history_limit |-> 10 ]

-----------------------------------------------------------------------------
(* Status side channel: Pipe.emit_status *)

\* the adapter's status state as one value, to thread through the calls of one step
StatusState == [calls |-> status_calls, emitted |-> emitted, last |-> last_emit_time]

SetStatus(st) ==
    /\ status_calls' = st.calls
    /\ emitted' = st.emitted
    /\ last_emit_time' = st.last

StatusEvent(level, done) ==
    [status |-> IF done THEN "complete" ELSE "in_progress", level |-> level, done |-> done]

\* one call emit_status(__event_emitter__, level, message, done) at time current_time;
\* emitter is "none" (no sink given), "ok" or "raises" (the sink raises in its await)
emit_status(st, emitter, level, done, current_time) ==
    LET called == [st EXCEPT !.calls = Append(@, [level |-> level, done |-> done])]
    IN  IF /\ emitter # "none"
           /\ valves.enable_status_indicator
           /\ (current_time - st.last >= valves.emit_interval \/ done)
        THEN IF emitter = "raises" THEN called
             ELSE [called EXCEPT !.emitted = Append(@, StatusEvent(level, done)),
                                 !.last = current_time]
        ELSE called

-----------------------------------------------------------------------------
(* JSON texts the backend sends, and json.loads of them *)

JSONDecodeError == [error |-> "JSONDecodeError"]

JsonText ==
    [ TextOk         |-> "{\"text\":\"ok\"}",
      MessageOk      |-> "{\"message\":\"ok\"}",
      TextNull       |-> "{\"text\":null}",
      TextAndMessage |-> "{\"text\":\"\",\"message\":\"m\",\"content\":\"c\",\"response\":\"r\"}",
      BareString     |-> "\"bare\"",
      EmptyString    |-> "\"\"",
      Number         |-> "5",
      List           |-> "[\"text\"]",
      TokenHel       |-> "{\"event\":\"token\",\"data\":\"Hel\"}",
      TokenLo        |-> "{\"event\":\"token\",\"data\":\"lo\"}",
      TokenEmpty     |-> "{\"event\":\"token\",\"data\":\"\"}",
      End            |-> "{\"event\":\"end\"}",
      EndDone        |-> "{\"event\":\"end\",\"data\":\"[DONE]\"}",
      Start          |-> "{\"event\":\"start\",\"data\":\"go\"}",
      Error          |-> "{\"event\":\"error\",\"message\":\"boom\"}",
      StatusEmpty    |-> "{\"event\":\"status\",\"data\":\"\"}",
      EventList      |-> "{\"event\":[\"token\"],\"data\":\"x\"}",
      OtherEvent     |-> "{\"event\":\"metadata\",\"data\":\"m\"}" ]

\* json.loads(text): the parsed value, or JSONDecodeError for a text that is no JSON
JsonLoads(text) ==
    CASE text = JsonText.TextOk -> D([text |-> S("ok")])
      [] text = JsonText.MessageOk -> D([message |-> S("ok")])
      [] text = JsonText.TextNull -> D([text |-> None])
      [] text = JsonText.TextAndMessage ->
             D([text |-> S(""), message |-> S("m"), content |-> S("c"), response |-> S("r")])
      [] text = JsonText.BareString -> S("bare")
      [] text = JsonText.EmptyString -> S("")
      [] text = JsonText.Number -> N(5)
      [] text = JsonText.List -> L(<<S("text")>>)
      [] text = JsonText.TokenHel -> D([event |-> S("token"), data |-> S("Hel")])
      [] text = JsonText.TokenLo -> D([event |-> S("token"), data |-> S("lo")])
      [] text = JsonText.TokenEmpty -> D([event |-> S("token"), data |-> S("")])
      [] text = JsonText.End -> D([event |-> S("end")])
      [] text = JsonText.EndDone -> D([event |-> S("end"), data |-> S("[DONE]")])
      [] text = JsonText.Start -> D([event |-> S("start"), data |-> S("go")])
      [] text = JsonText.Error -> D([event |-> S("error"), message |-> S("boom")])
      [] text = JsonText.StatusEmpty -> D([event |-> S("status"), data |-> S("")])
      [] text = JsonText.EventList -> D([event |-> L(<<S("token")>>), data |-> S("x")])
      [] text = JsonText.OtherEvent -> D([event |-> S("metadata"), data |-> S("m")])
      [] OTHER -> JSONDecodeError

-----------------------------------------------------------------------------
(* Request builder: Pipe.pipe and its helpers *)

\* the diagnostic texts pipe returns (their leading pictograph left out)
ErrMissingConfig == "Missing Flowise configuration. Please check your API URL and key."
ErrNoMessages == "No messages found in request"
ErrEmptyContent == "Empty message content"
ErrTimeout == "Request timeout after " \o ToString(valves.timeout) \o " seconds"
ErrConnection == "Connection failed - Is Flowise running and accessible?"
ErrHTTP(status_code) == "HTTP Error " \o ToString(status_code)
ErrUnexpected(message) == "Unexpected error: " \o message

EmptyDict == D(<<>>)

\* d[k] = v on a copy of dict d
DictSet(d, k, v) == D([x \in DOMAIN d.d \cup {k} |-> IF x = k THEN v ELSE d.d[x]])

\* q[-n:] for n > 0
LastN(q, n) == IF n >= Len(q) THEN q ELSE SubSeq(q, Len(q) - n + 1, Len(q))

\* q[:n] for n > 0
FirstN(q, n) == IF n >= Len(q) THEN q ELSE SubSeq(q, 1, n)

_split_messages_for_flowise(messages) ==
    IF messages = <<>> THEN [prior_messages |-> <<>>, current_message |-> EmptyDict]
    ELSE [prior_messages |-> SubSeq(messages, 1, Len(messages) - 1),
          current_message |-> messages[Len(messages)]]

HasHistoryRole(m) == GetOrNone(m, "role") \in {S("user"), S("assistant")}

\* a plausible slip: the window is taken from the front, filtered[:limit]
_trim_messages_for_history_Front(messages, limit) ==
    IF limit <= 0 \/ messages = <<>> THEN <<>>
    ELSE FirstN(SelectSeq(messages, HasHistoryRole), limit)

_trim_messages_for_history(messages, limit) ==
    IF limit <= 0 \/ messages = <<>> THEN <<>>
    ELSE LastN(SelectSeq(messages, HasHistoryRole), limit)

\* what one message adds to the history
HistoryEntry(msg) ==
    LET role == Get(msg, "role", S("user"))
        content == Strip(_process_message_content(msg))
    IN  IF content = "" THEN <<>>
        ELSE IF role \notin {S("user"), S("assistant")} THEN <<>>
        ELSE << D([role |-> S(IF role = S("user") THEN "userMessage" ELSE "apiMessage"),
                   content |-> S(content)]) >>

_build_history_payload(messages) ==
    Flatten([i \in 1..Len(messages) |-> HistoryEntry(messages[i])])

\* a plausible slip: the configuration check looks at the API key only
ConfigMissing_KeyOnly == valves.flowise_api_key = ""

ConfigMissing == valves.flowise_api_key = "" \/ valves.flowise_url = ""

\* body.get("messages", []) as a sequence; a missing, null or empty list has no messages
BodyMessages(body) ==
    LET messages == Get(body, "messages", L(<<>>))
    IN  IF IsList(messages) THEN messages.l ELSE <<>>

\* model_info.split(".", 1)[1] when model_info has a ".", else model_info
ModelId(body) ==
    LET model_info == Get(body, "model", S("")).s
    IN  IF Contains(model_info, ".") THEN DropFirst(model_info, IndexOf(model_info, "."))
        ELSE model_info

Question(body) ==
    _process_message_content(_split_messages_for_flowise(BodyMessages(body)).current_message)

\* a plausible slip: the question is tested without trimming it
QuestionIsBlank_NoStrip(question) == question = ""

\* not question.strip()
QuestionIsBlank(question) == Strip(question) = ""

StreamEnabled(body) == Get(body, "stream", B(TRUE))

SyntheticSessionId(t) == S("session_" \o ToString(t))

DefaultSessionId(metadata, t) ==
    IF Truthy(metadata) THEN Get(metadata, "chat_id", SyntheticSessionId(t))
    ELSE SyntheticSessionId(t)

UserOverrideConfig(body) ==
    IF IsDict(GetOrNone(body, "overrideConfig")) THEN GetOrNone(body, "overrideConfig")
    ELSE IF IsDict(GetOrNone(body, "flowise_override")) THEN GetOrNone(body, "flowise_override")
    ELSE EmptyDict

OverrideConfig(body, default_session_id) ==
    LET user_override_config == UserOverrideConfig(body)
        with_session ==
            IF ~Truthy(GetOrNone(user_override_config, "sessionId"))
            THEN DictSet(user_override_config, "sessionId", default_session_id)
            ELSE user_override_config
    IN  IF "isOverrideHistory" \notin DOMAIN with_session.d
        THEN DictSet(with_session, "isOverrideHistory", B(valves.force_override_history))
        ELSE with_session

\* a plausible slip: chatId is always the default session id
RequestSessionId_Default(override_config, default_session_id) == default_session_id

\* request_session_id = override_config.get("sessionId", default_session_id)
RequestSessionId(override_config, default_session_id) ==
    Get(override_config, "sessionId", default_session_id)

HistoryPayload(body) ==
    LET prior_messages == _split_messages_for_flowise(BodyMessages(body)).prior_messages
    IN  IF IsList(GetOrNone(body, "history")) THEN GetOrNone(body, "history")
        ELSE IF prior_messages # <<>>
        THEN L(_build_history_payload(
                   _trim_messages_for_history(prior_messages, valves.history_limit)))
        ELSE L(<<>>)

\* request_data, built at time t
RequestData(body, metadata, t) ==
    LET default_session_id == DefaultSessionId(metadata, t)
        override_config == OverrideConfig(body, default_session_id)
        uploads_payload == _extract_uploads(body, BodyMessages(body))
        base == [ question |-> S(Question(body)),
                  overrideConfig |-> override_config,
                  streaming |-> StreamEnabled(body),
                  chatId |-> RequestSessionId(override_config, default_session_id),
                  history |-> HistoryPayload(body) ]
    IN  IF uploads_payload # <<>>
        THEN D([k \in DOMAIN base \cup {"uploads"} |->
                   IF k = "uploads" THEN L(uploads_payload) ELSE base[k]])
        ELSE D(base)

PredictionUrl(body) == valves.flowise_url \o "/api/v1/prediction/" \o ModelId(body)

Returned(value) == [kind |-> "returned", value |-> value]
ReturnedGenerator == [kind |-> "generator"]
\* pipe() ended by an exception that reached its caller
Raised == [kind |-> "raised"]

\* "." in model_info raises TypeError at line 414 when the model is not a string
ModelRaises(body) == ~IsStr(Get(body, "model", S("")))

\* the exceptions the model lets the try block of pipe() raise, and str(e) of each
ExceptionText(failure) ==
    CASE failure = "TypeError" -> "argument of type 'NoneType' is not iterable"
      [] failure = "InvalidSchema" -> "No connection adapters were found"
      [] OTHER -> ""

\* a plausible slip: no catch-all handler after the three handlers of requests errors
PipeOutcome_NoCatchAll(failure) ==
    CASE failure = "Timeout" -> Returned(S(ErrTimeout))
      [] failure = "ConnectionError" -> Returned(S(ErrConnection))
      [] OTHER -> Raised

\* lines 540-548, 555-560: what pipe() ends with when its try block raises failure
PipeOutcome(failure) ==
    CASE failure = "Timeout" -> Returned(S(ErrTimeout))
      [] failure = "ConnectionError" -> Returned(S(ErrConnection))
      [] OTHER -> Returned(S(ErrUnexpected(ExceptionText(failure))))

\* a plausible slip: a reply without a text field falls back to its message field
DecodeOnce_MessageFallback(text) ==
    LET response_data == JsonLoads(text)
    IN  IF response_data = JSONDecodeError THEN S("")
        ELSE IF IsDict(response_data) /\ "text" \in DOMAIN response_data.d
        THEN response_data.d.text
        ELSE IF IsDict(response_data) /\ "message" \in DOMAIN response_data.d
        THEN response_data.d.message
        ELSE S("")

\* the non-streaming result for a reply body: response.json() and the text field
DecodeOnce(text) ==
    LET response_data == JsonLoads(text)
    IN  IF response_data = JSONDecodeError THEN S("")
        ELSE IF IsDict(response_data) /\ "text" \in DOMAIN response_data.d
        THEN response_data.d.text
        ELSE S("")

-----------------------------------------------------------------------------
(* The state of the adapter before a call *)

NoOutput == [kind |-> "none"]
NoRequest == [kind |-> "none"]
NoResponse == [kind |-> "none"]

\* the state of a fresh adapter (Pipe.__init__) that no call has touched
FreshAdapter ==
    /\ output = NoOutput
    /\ request = NoRequest
    /\ response = NoResponse
    /\ status_calls = <<>>
    /\ emitted = <<>>
    /\ last_emit_time = 0
    /\ now = 1
    /\ gen = "none"
    /\ consumed = 0
    /\ yielded = <<>>
    /\ tasks = <<>>

-----------------------------------------------------------------------------
(* Inputs of the content normalizer *)

MaxParts == 3

ContentPart ==
    [ TextA       |-> D([type |-> S("text"), text |-> S("a")]),
      TextB       |-> D([type |-> S("text"), text |-> S("b c")]),
      TextEmpty   |-> D([type |-> S("text"), text |-> S("")]),
      TextMissing |-> D([type |-> S("text")]),
      TextNone    |-> D([type |-> S("text"), text |-> None]),
      ImagePart   |-> D([type |-> S("image_url"), image_url |-> D([url |-> S("data:image/png;base64,AA")])]),
      FilePart    |-> D([type |-> S("file"), data |-> S("data:text/plain;base64,QQ")]),
      UntypedPart |-> D([text |-> S("untyped")]),
      BareItem    |-> S("raw") ]

ContentParts == {ContentPart[k] : k \in DOMAIN ContentPart}

FlatContents == {S("hi"), S(""), S("  "), S(" x "), None}

NormalizeMessages ==
    {D([role |-> S("user"), content |-> L(q)]) : q \in SeqsUpTo(ContentParts, MaxParts)}
    \cup {D([role |-> S("user"), content |-> c]) : c \in FlatContents}
    \cup {D([role |-> S("user")])}

InitNormalize ==
    /\ scenario = "normalize"
    /\ pc = "call"
    /\ valves = DefaultValves
    /\ input \in {[message |-> m] : m \in NormalizeMessages}
    /\ FreshAdapter

Normalize ==
    /\ scenario = "normalize"
    /\ pc = "call"
    /\ pc' = "done"
    /\ output' = [kind |-> "text", text |-> _process_message_content(input.message)]
    /\ UNCHANGED <<scenario, valves, input, ioVars, streamVars>>

NextNormalize == Normalize

SpecNormalize == InitNormalize /\ [][NextNormalize]_vars

NormalizeDone == scenario = "normalize" /\ pc = "done"
ContentOf(message) == Get(message, "content", None)

\* the fragment a part contributes as the code has it: a text part the string form of
\* its text field (empty when absent), an image_url part the placeholder, any other
\* dict part nothing, a part that is no dict its string form
CodeFragment(part) ==
    IF ~IsDict(part) THEN ToStr(part)
    ELSE IF "type" \in DOMAIN part.d /\ part.d.type = S("text")
         THEN (IF "text" \in DOMAIN part.d THEN ToStr(part.d.text) ELSE "")
    ELSE IF "type" \in DOMAIN part.d /\ part.d.type = S("image_url") THEN ImagePlaceholder
    ELSE ""

\* the fragment a part contributes as claim C4 has it: any dict part that is no text
\* part contributes the placeholder
ClaimedFragment(part) ==
    IF ~IsDict(part) THEN ToStr(part)
    ELSE IF "type" \in DOMAIN part.d /\ part.d.type = S("text")
         THEN (IF "text" \in DOMAIN part.d THEN ToStr(part.d.text) ELSE "")
    ELSE ImagePlaceholder

\* the fragments joined by a blank line in part order, empty fragments skipped
RECURSIVE JoinedFragments(_)
JoinedFragments(frags) ==
    IF frags = <<>> THEN ""
    ELSE LET first == Head(frags)
             rest == JoinedFragments(Tail(frags))
         IN  IF first = "" THEN rest
             ELSE IF rest = "" THEN first
             ELSE first \o "\n\n" \o rest

\* C4 as stated: a content list normalizes to its fragments joined by a blank line,
\* every image or other unrecognized dict part giving "[Image content]", and absent,
\* null or blank content normalizes to the empty string.
C4_NormalizeAsClaimed ==
    NormalizeDone =>
        LET content == ContentOf(input.message)
        IN  /\ IsList(content) => output.text =
                   JoinedFragments([i \in 1..Len(content.l) |-> ClaimedFragment(content.l[i])])
            /\ (IsNone(content) \/ (IsStr(content) /\ Strip(content.s) = ""))
                   => output.text = ""

\* C4 amended: a content list normalizes to its fragments joined by a blank line in part
\* order, empty fragments skipped, where a text part gives the string form of its text,
\* an image_url part gives "[Image content]", any other dict part gives nothing and a
\* part that is no dict gives its string form; absent, null or empty content normalizes
\* to the empty string and any other flat text, whitespace-only text included, is
\* returned unchanged.
C4_Normalize ==
    NormalizeDone =>
        LET content == ContentOf(input.message)
        IN  /\ IsList(content) => output.text =
                   JoinedFragments([i \in 1..Len(content.l) |-> CodeFragment(content.l[i])])
            /\ (IsNone(content) \/ content = S("")) => output.text = ""
            /\ (IsStr(content) /\ content.s # "") => output.text = content.s

C4_Witness ==
    /\ NormalizeDone
    /\ ContentOf(input.message) = L(<<ContentPart.TextA, ContentPart.FilePart, ContentPart.ImagePart>>)
    /\ output.text = "a\n\n[Image content]"

-----------------------------------------------------------------------------
(* Inputs of the attachment extraction *)

MaxUploads == 2

DataVal ==
    [ HttpUrl      |-> "http://files.example/a.png",
      HttpsUrl     |-> "https://files.example/b.pdf",
      UpperHttpUrl |-> "HTTP://files.example/c.png",
      DataUri      |-> "data:image/png;base64,iVBOR",
      Opaque       |-> "QUJD" ]

\* candidates of a top-level uploads list
TopCandidates ==
    { D([data |-> S(DataVal.HttpUrl)]),
      D([url |-> S(DataVal.HttpsUrl)]),
      D([data_url |-> S(DataVal.HttpUrl)]),
      D([base64 |-> S(DataVal.HttpUrl)]),
      D([b64 |-> S(DataVal.HttpsUrl)]),
      D([data |-> S(""), url |-> S(DataVal.HttpUrl)]),
      D([data |-> S(DataVal.HttpUrl), type |-> S("url")]),
      D([data |-> S(DataVal.HttpsUrl), mime |-> S("image/png"), name |-> S("b.pdf")]),
      D([data |-> S(DataVal.UpperHttpUrl)]),
      D([data |-> S(DataVal.DataUri)]),
      D([data |-> S(DataVal.DataUri), type |-> S("url")]),
      D([data |-> S(DataVal.DataUri), type |-> S("file"), name |-> S("pic")]),
      D([data |-> S(DataVal.Opaque)]),
      D([data |-> S(DataVal.Opaque), type |-> S("url")]),
      D([data |-> S(DataVal.DataUri), type |-> S("audio")]),
      D([data |-> S(DataVal.Opaque), mime |-> S("image/png")]),
      D([base64 |-> S(DataVal.Opaque), mimetype |-> S("text/plain"), type |-> S("file:rag")]),
      D([data |-> S(DataVal.Opaque), mime |-> S("png")]),
      D([data |-> None, name |-> S("nothing")]),
      S("not a dict") }

\* candidates of a message's own uploads list
MessageCandidates ==
    { D([data |-> S(DataVal.HttpUrl)]),
      D([url |-> S(DataVal.HttpsUrl), type |-> S("url")]),
      D([data |-> S(DataVal.Opaque)]),
      D([data |-> S(DataVal.DataUri)]) }

\* inline content parts: file / input_file / data_url parts and image_url parts
InlineParts ==
    { D([type |-> S("file"), data |-> S(DataVal.HttpUrl)]),
      D([type |-> S("input_file"), url |-> S(DataVal.HttpsUrl)]),
      D([type |-> S("data_url"), data_url |-> S(DataVal.DataUri)]),
      D([type |-> S("file"), data |-> S(DataVal.Opaque)]),
      D([type |-> S("data_url"), b64 |-> S(DataVal.Opaque), mime |-> S("image/png")]),
      D([type |-> S("image_url"), image_url |-> S(DataVal.HttpUrl)]),
      D([type |-> S("image_url"), image_url |-> D([url |-> S(DataVal.HttpsUrl)])]),
      D([type |-> S("image_url"), image_url |-> D([url |-> S(DataVal.DataUri)])]),
      D([type |-> S("image_url"), image_url |-> S(DataVal.Opaque)]),
      D([type |-> S("image_url"), image_url |-> D([detail |-> S("low")])]),
      D([type |-> S("text"), text |-> S("see attachment")]) }

Placed ==
    {[src |-> "top", c |-> c] : c \in TopCandidates}
    \cup {[src |-> "msg", c |-> c] : c \in MessageCandidates}
    \cup {[src |-> "part", c |-> c] : c \in InlineParts}

\* the candidates of one source, in order
FromSource(placed, src) ==
    LET IsFrom(x) == x.src = src
        sel == SelectSeq(placed, IsFrom)
    IN  [i \in 1..Len(sel) |-> sel[i].c]

\* the request body and the message list that carry the placed candidates
UploadsBody(placed) ==
    IF FromSource(placed, "top") = <<>> THEN D([model |-> S("flowise_chat.flow1")])
    ELSE D([model |-> S("flowise_chat.flow1"), uploads |-> L(FromSource(placed, "top"))])

UploadsMessages(placed) ==
    LET ups == FromSource(placed, "msg")
        parts == FromSource(placed, "part")
        content == IF parts = <<>> THEN S("see files") ELSE L(parts)
    IN  << IF ups = <<>> THEN D([role |-> S("user"), content |-> content])
           ELSE D([role |-> S("user"), content |-> content, uploads |-> L(ups)]) >>

InitUploads ==
    /\ scenario = "uploads"
    /\ pc = "call"
    /\ valves \in {[DefaultValves EXCEPT !.allow_remote_file_urls = a] : a \in BOOLEAN}
    /\ input \in {[placed |-> q, body |-> UploadsBody(q), messages |-> UploadsMessages(q)] :
                    q \in SeqsUpTo(Placed, MaxUploads)}
    /\ FreshAdapter

ExtractUploads ==
    /\ scenario = "uploads"
    /\ pc = "call"
    /\ pc' = "done"
    /\ output' = [kind |-> "uploads", uploads |-> _extract_uploads(input.body, input.messages)]
    /\ UNCHANGED <<scenario, valves, input, ioVars, streamVars>>

NextUploads == ExtractUploads

SpecUploads == InitUploads /\ [][NextUploads]_vars

UploadsDone == scenario = "uploads" /\ pc = "done"

\* the data of the i-th returned attachment
UploadData(i) == output.uploads[i].d.data.s

IsRemoteUrl(str) ==
    \E scheme \in {"http://", "https://"} :
        Len(str) >= Len(scheme) /\ SubSeq(str, 1, Len(scheme)) = scheme

\* C2: with allow_remote_file_urls false, no attachment _extract_uploads returns has a
\* data value that is an http:// or https:// URL, whatever source and field carried it.
C2_NoRemoteUrlWhenDisabled ==
    (UploadsDone /\ ~valves.allow_remote_file_urls) =>
        \A i \in 1..Len(output.uploads) : ~IsRemoteUrl(UploadData(i))

C2_Witness ==
    /\ UploadsDone
    /\ ~valves.allow_remote_file_urls
    /\ input.placed = << [src |-> "top", c |-> D([b64 |-> S(DataVal.HttpsUrl)])],
                         [src |-> "part",
                          c |-> D([type |-> S("image_url"), image_url |-> S(DataVal.HttpUrl)])] >>
    /\ output.uploads = <<>>

\* C3: an opaque string (neither data-URI nor http(s) URL) is emitted only wrapped as a
\* data-URI, which takes a MIME hint; without one the candidate is dropped, so no
\* returned attachment carries an opaque string as its data.
C3_OpaqueOnlyWithMimeHint ==
    UploadsDone =>
        \A i \in 1..Len(output.uploads) :
            IsDataUri(UploadData(i)) \/ IsRemoteUrl(UploadData(i))

\* the type claim C14 gives the upload emitted for candidate u
ClaimedType(u) ==
    LET given == GetOrNone(u, "type")
    IN  IF ~Truthy(given) \/ given = S("file") THEN S(valves.default_upload_type)
        ELSE IF given = S("url") /\ ~valves.allow_remote_file_urls
             THEN S(valves.default_upload_type)
        ELSE given

\* the candidates of the uploads lists that are emitted, in the order of emission
EmittedCandidates ==
    LET IsKept(u) == normalize_upload(u) # NoUpload
    IN  SelectSeq(FromSource(input.placed, "top") \o FromSource(input.placed, "msg"), IsKept)

\* C14: an emitted upload keeps its candidate's explicit type, except that "file" becomes
\* the default upload type and "url" is kept only when remote URLs are allowed; a
\* candidate without a type gets the default type; with allow_remote_file_urls false no
\* emitted upload has type "url", whatever data the candidate carries.
C14_TypeResolution ==
    UploadsDone =>
        /\ ~valves.allow_remote_file_urls =>
              \A i \in 1..Len(output.uploads) : output.uploads[i].d.type # S("url")
        /\ FromSource(input.placed, "part") = <<>> =>
              /\ Len(output.uploads) = Len(EmittedCandidates)
              /\ \A i \in 1..Len(output.uploads) :
                    output.uploads[i].d.type = ClaimedType(EmittedCandidates[i])

-----------------------------------------------------------------------------
(* Inputs of pipe() *)

MaxMsgs == 3
MaxHistoryLimit == 2
MaxTime == 2

Min(a, b) == IF a <= b THEN a ELSE b

\* a key that the caller left out
Absent == [absent |-> TRUE]

\* dict d with key k set to v, unless the caller left k out
WithOptional(d, k, v) == IF v = Absent THEN d ELSE DictSet(d, k, v)

Message ==
    [ UserHi         |-> D([role |-> S("user"), content |-> S("hi")]),
      AssistantHello |-> D([role |-> S("assistant"), content |-> S(" hello\n")]),
      System         |-> D([role |-> S("system"), content |-> S("be brief")]),
      UserBlank      |-> D([role |-> S("user"), content |-> S("  ")]),
      PartsNoRole    |-> D([content |-> L(<<ContentPart.TextA, ContentPart.ImagePart>>)]) ]

PipeMessages == {Message.UserHi, Message.AssistantHello, Message.System, Message.UserBlank, Message.PartsNoRole}

ExplicitHistory == L(<< D([role |-> S("apiMessage"), content |-> S("as the caller gave it")]) >>)

BodyOf(messages) ==
    D([model |-> S("flowise_chat.flow1"), messages |-> L(messages), stream |-> B(FALSE)])

PipeInput(body, metadata, emitter, v) ==
    [body |-> body, metadata |-> metadata, emitter |-> emitter, valves |-> v]

\* the arguments of a call and, for a streamed reply, what the backend and the host do:
\* the lines of the event stream, the error the line source raises after some of them,
\* and whether the generator is consumed where an event loop is running
CallInput(x, lines, failure, loop_running) ==
    [body |-> x.body, metadata |-> x.metadata, emitter |-> x.emitter,
     lines |-> lines, failure |-> failure, loop_running |-> loop_running]

NoFailure == [kind |-> "none"]

\* message lists and history limits, the caller giving no history list
HistoryInputs ==
    { PipeInput(BodyOf(q), None, "ok", [DefaultValves EXCEPT !.history_limit = h]) :
        q \in SeqsUpTo(PipeMessages, MaxMsgs), h \in (-1)..MaxHistoryLimit }

\* the caller gives the history list itself
ExplicitHistoryInputs ==
    { PipeInput(DictSet(BodyOf(q \o <<Message.UserHi>>), "history", ExplicitHistory), None, "ok",
                DefaultValves) :
        q \in SeqsUpTo(PipeMessages, 1) }

OverrideConfigs ==
    { Absent, S("not a dict"), EmptyDict, D([sessionId |-> S("")]), D([sessionId |-> None]),
      D([sessionId |-> S("caller-session")]),
      D([sessionId |-> S("caller-session"), isOverrideHistory |-> B(FALSE)]) }

FlowiseOverrides ==
    { Absent, EmptyDict, D([sessionId |-> S("alias-session"), vars |-> S("v")]) }

Metadatas ==
    { None, EmptyDict, D([chat_id |-> S("chat-1")]), D([chat_id |-> S("")]),
      D([chat_id |-> None]), D([user_id |-> S("u1")]) }

Streams == {Absent, B(TRUE), B(FALSE)}

\* every combination of override block, alias block, session metadata and stream flag
SessionInputs ==
    { PipeInput(
          WithOptional(WithOptional(WithOptional(
              D([model |-> S("flow1"), messages |-> L(<<Message.AssistantHello, Message.UserHi>>)]),
              "overrideConfig", o), "flowise_override", f), "stream", st),
          md, "ok", DefaultValves) :
        o \in OverrideConfigs, f \in FlowiseOverrides, md \in Metadatas, st \in Streams }

ConfigValves ==
    { DefaultValves,
      [DefaultValves EXCEPT !.flowise_url = ""],
      [DefaultValves EXCEPT !.flowise_api_key = ""],
      [DefaultValves EXCEPT !.enable_status_indicator = FALSE],
      [DefaultValves EXCEPT !.emit_interval = 0],
      [DefaultValves EXCEPT !.force_override_history = FALSE] }

ConfigBodies ==
    { BodyOf(<<Message.UserHi>>), BodyOf(<<>>), BodyOf(<<Message.UserHi, Message.UserBlank>>),
      D([model |-> S("flowise_chat.flow1")]),
      D([model |-> S("flowise_chat.flow1"), messages |-> None]),
      D([model |-> None, messages |-> L(<<Message.UserHi>>)]),
      D([model |-> S("flowise_chat.flow1"),
         messages |-> L(<<D([role |-> S("user"), content |-> L(<<ContentPart.TextEmpty, ContentPart.FilePart>>)])>>)]) }

\* configurations and sinks of every kind
ConfigInputs ==
    { PipeInput(b, D([chat_id |-> S("chat-1")]), e, v) :
        b \in ConfigBodies, e \in {"none", "ok", "raises"}, v \in ConfigValves }

PipeInputs == HistoryInputs \cup ExplicitHistoryInputs \cup SessionInputs \cup ConfigInputs

\* the reply bodies of a successful non-streaming POST
ReplyBodies ==
    { JsonText.TextOk, JsonText.MessageOk, JsonText.TextNull, JsonText.TextAndMessage, JsonText.BareString, JsonText.List,
      JsonText.Number, "not json", "" }

HttpErrorStatuses == {404, 500}

-----------------------------------------------------------------------------
(* pipe() *)

InitPipe ==
    /\ scenario = "pipe"
    /\ pc = "call"
    /\ \E x \in PipeInputs :
          /\ input = CallInput(x, <<>>, NoFailure, TRUE)
          /\ valves = x.valves
    /\ FreshAdapter

\* a plausible slip: error_msg is returned without the terminal error status
ReturnError_NoStatus(st, error_msg, t) ==
    /\ pc' = "done"
    /\ output' = Returned(S(error_msg))
    /\ SetStatus(st)

\* pipe returns error_msg after the terminal error status
ReturnError(st, error_msg, t) ==
    /\ pc' = "done"
    /\ output' = Returned(S(error_msg))
    /\ SetStatus(emit_status(st, input.emitter, "error", TRUE, t))

\* the try block of pipe() raised: the handler's return, or the exception if none caught it
EndWith(st, outcome, t) ==
    IF outcome = Raised
    THEN /\ pc' = "done"
         /\ output' = Raised
         /\ SetStatus(st)
    ELSE ReturnError(st, outcome.value.s, t)

\* lines 397-435: the first status, then the configuration, messages and question checks
PipeValidate ==
    /\ scenario = "pipe"
    /\ pc = "call"
    /\ LET st == emit_status(StatusState, input.emitter, "info", FALSE, now)
       IN  IF ConfigMissing THEN ReturnError(st, ErrMissingConfig, now)
           ELSE IF ModelRaises(input.body) THEN EndWith(st, PipeOutcome("TypeError"), now)
           ELSE IF BodyMessages(input.body) = <<>> THEN ReturnError(st, ErrNoMessages, now)
           ELSE IF QuestionIsBlank(Question(input.body))
                THEN ReturnError(st, ErrEmptyContent, now)
           ELSE /\ pc' = "send"
                /\ output' = output
                /\ SetStatus(emit_status(st, input.emitter, "info", FALSE, now))
    /\ UNCHANGED <<scenario, valves, input, request, response, now, streamVars>>

\* the POST that lines 437-503 build and send, at time now
PostedRequest ==
    [ url |-> PredictionUrl(input.body),
      json |-> RequestData(input.body, input.metadata, now),
      stream |-> StreamEnabled(input.body) ]

\* lines 497-516: the POST succeeds and streaming is on: pipe returns the generator
PipePostOkStream ==
    /\ scenario = "pipe"
    /\ pc = "send"
    /\ Truthy(StreamEnabled(input.body))
    /\ \E t \in now..Min(now + 1, MaxTime) :
          /\ now' = t
          /\ SetStatus(emit_status(StatusState, input.emitter, "info", FALSE, t))
    /\ request' = PostedRequest
    /\ response' = [kind |-> "ok", status_code |-> 200, text |-> ""]
    /\ output' = ReturnedGenerator
    /\ pc' = "done"
    /\ gen' = "created"
    /\ UNCHANGED <<scenario, valves, input, consumed, yielded, tasks>>

\* lines 497-512: the POST succeeds and streaming is off: the reply body has arrived
PipePostOkJson ==
    /\ scenario = "pipe"
    /\ pc = "send"
    /\ ~Truthy(StreamEnabled(input.body))
    /\ \E t \in now..Min(now + 1, MaxTime) :
          /\ now' = t
          /\ SetStatus(emit_status(StatusState, input.emitter, "info", FALSE, t))
    /\ request' = PostedRequest
    /\ \E text \in ReplyBodies : response' = [kind |-> "ok", status_code |-> 200, text |-> text]
    /\ pc' = "decode"
    /\ UNCHANGED <<scenario, valves, input, output, streamVars>>

\* lines 540-548, 555-560: session.post raises Timeout, ConnectionError or another error
PipePostFails ==
    /\ scenario = "pipe"
    /\ pc = "send"
    /\ request' = PostedRequest
    /\ \E t \in now..Min(now + 1, MaxTime),
          failure \in {"Timeout", "ConnectionError", "InvalidSchema"} :
          /\ now' = t
          /\ response' = [kind |-> failure]
          /\ EndWith(StatusState, PipeOutcome(failure), t)
    /\ UNCHANGED <<scenario, valves, input, streamVars>>

\* lines 505, 550-553: the backend answers with an error status, raise_for_status raises
PipePostHttpError ==
    /\ scenario = "pipe"
    /\ pc = "send"
    /\ request' = PostedRequest
    /\ \E t \in now..Min(now + 1, MaxTime), status_code \in HttpErrorStatuses :
          /\ now' = t
          /\ response' = [kind |-> "HTTPError", status_code |-> status_code]
          /\ ReturnError(StatusState, ErrHTTP(status_code), t)
    /\ UNCHANGED <<scenario, valves, input, streamVars>>

\* lines 517-538: the non-streaming reply is decoded and returned
PipeDecode ==
    /\ scenario = "pipe"
    /\ pc = "decode"
    /\ LET st == emit_status(StatusState, input.emitter, "info", FALSE, now)
       IN  SetStatus(emit_status(st, input.emitter, "info", TRUE, now))
    /\ output' = Returned(DecodeOnce(response.text))
    /\ pc' = "done"
    /\ UNCHANGED <<scenario, valves, input, request, response, now, streamVars>>

NextPipe ==
    \/ PipeValidate
    \/ PipePostOkStream
    \/ PipePostOkJson
    \/ PipePostFails
    \/ PipePostHttpError
    \/ PipeDecode

SpecPipe == InitPipe /\ [][NextPipe]_vars

PipeScenario == scenario = "pipe"
Posted == PipeScenario /\ request # NoRequest

\* C1: in every request pipe() builds and posts, the top-level chatId equals
\* overrideConfig.sessionId, whatever override block, alias block, session id and
\* session metadata the caller gave.
C1_ChatIdIsSessionId ==
    Posted =>
        /\ "sessionId" \in DOMAIN request.json.d.overrideConfig.d
        /\ request.json.d.chatId = request.json.d.overrideConfig.d.sessionId

\* the caller's own session id is empty, an alias block is given too, and the session
\* metadata supplies the id that both fields end up with
C1_Witness ==
    /\ Posted
    /\ GetOrNone(input.body, "overrideConfig") = D([sessionId |-> S("")])
    /\ "flowise_override" \in DOMAIN input.body.d
    /\ input.metadata = D([chat_id |-> S("chat-1")])
    /\ request.json.d.chatId = S("chat-1")
    /\ request.json.d.overrideConfig.d.sessionId = S("chat-1")

\* the messages of the call, and the normalized text of the last one
InputMessages ==
    IF "messages" \in DOMAIN input.body.d /\ IsList(input.body.d.messages)
    THEN input.body.d.messages.l ELSE <<>>

LastMessageText == _process_message_content(InputMessages[Len(InputMessages)])

\* C5: with a valid configuration, pipe() called with an empty message list, or with a
\* last message whose normalized text is blank after trimming, returns a
\* validation-error text as its result (it does not raise) and posts nothing.
C5_ValidationErrorReturned ==
    (PipeScenario /\ pc # "call" /\ valves.flowise_url # "" /\ valves.flowise_api_key # "") =>
        /\ InputMessages = <<>> =>
              /\ pc = "done"
              /\ output = Returned(S(ErrNoMessages))
              /\ request = NoRequest
        /\ (InputMessages # <<>> /\ Strip(LastMessageText) = "") =>
              /\ pc = "done"
              /\ output = Returned(S(ErrEmptyContent))
              /\ request = NoRequest

\* the single user message "  "
C5_Witness ==
    /\ PipeScenario
    /\ pc = "done"
    /\ InputMessages = <<Message.UserBlank>>
    /\ output = Returned(S(ErrEmptyContent))

HistoryRoles == {S("user"), S("assistant")}

\* the role and normalized trimmed text of a prior message, as a history entry
TurnOf(msg) ==
    D([role |-> S(IF msg.d.role = S("user") THEN "userMessage" ELSE "apiMessage"),
       content |-> S(Strip(_process_message_content(msg)))])

\* the history of claim C6: the prior messages of role user/assistant, the last limit
\* of them in their order, each mapped, the blank ones dropped
ExpectedHistory(messages, limit) ==
    LET IsTurn(m) == "role" \in DOMAIN m.d /\ m.d.role \in HistoryRoles
        NotBlank(e) == e.d.content # S("")
        turns == SelectSeq(SubSeq(messages, 1, Len(messages) - 1), IsTurn)
        from == IF limit <= 0 THEN Len(turns) + 1
                ELSE IF Len(turns) > limit THEN Len(turns) - limit + 1 ELSE 1
        window == SubSeq(turns, from, Len(turns))
    IN  SelectSeq([i \in 1..Len(window) |-> TurnOf(window[i])], NotBlank)

C10_NonStreamingResult ==
    (PipeScenario /\ pc = "done" /\ response # NoResponse /\ response.kind = "ok"
        /\ ~Truthy(request.stream)) =>
        LET parsed == JsonLoads(response.text)
        IN  IF parsed # JSONDecodeError /\ IsDict(parsed) /\ "text" \in DOMAIN parsed.d
            THEN output = Returned(parsed.d.text)
            ELSE output = Returned(S(""))

\* a reply with a message field and no text field gives the empty text
C10_Witness ==
    /\ PipeScenario
    /\ pc = "done"
    /\ response # NoResponse
    /\ response.kind = "ok"
    /\ response.text = JsonText.MessageOk
    /\ output = Returned(S(""))

\* the three checks of lines 406-433 pass for this call
ChecksPass ==
    /\ valves.flowise_url # ""
    /\ valves.flowise_api_key # ""
    /\ InputMessages # <<>>
    /\ Strip(LastMessageText) # ""

\* C15: the POST to the backend is issued only after the configuration check, the
\* non-empty-messages check and the non-blank-question check have all passed; when one
\* of them fails, no request is sent for that invocation.
C15_ValidationPrecedesPost ==
    PipeScenario =>
        /\ Posted => ChecksPass
        /\ ~ChecksPass => request = NoRequest

\* a valid call has posted its question
C15_Witness ==
    /\ Posted
    /\ valves = DefaultValves
    /\ InputMessages = <<Message.UserHi>>
    /\ request.json.d.question = S("hi")

TerminalCalls == {i \in 1..Len(status_calls) : status_calls[i].done}
Succeeded == response # NoResponse /\ response.kind = "ok"

\* C16: every pipe() invocation that returns a value rather than an opened stream has
\* made exactly one emit_status call with done=true, that call is the last emit_status
\* call it made, and its level is info on success and error on every failure path.
C16_OneTerminalStatusCall ==
    (PipeScenario /\ pc = "done" /\ output.kind = "returned") =>
        /\ TerminalCalls = {Len(status_calls)}
        /\ status_calls[Len(status_calls)].level = (IF Succeeded THEN "info" ELSE "error")

\* the POST timed out: two progress calls, then the terminal error call
C16_Witness ==
    /\ PipeScenario
    /\ pc = "done"
    /\ output = Returned(S(ErrTimeout))
    /\ status_calls = << [level |-> "info", done |-> FALSE], [level |-> "info", done |-> FALSE],
                         [level |-> "error", done |-> TRUE] >>

-----------------------------------------------------------------------------
(* Streaming decoder: Pipe._handle_streaming_response *)

\* the diagnostic texts the generator yields (their leading pictograph and the timeout
\* pair of the first left out)
ErrStreamTimeout ==
    "Streaming read timed out. Increase FLOWISE_READ_TIMEOUT_STREAM or unset FLOWISE_TIMEOUT if set."
ErrStreamError(message) == "Streaming error: " \o message

SideChannelEvents == {S("start"), S("end"), S("error"), S("status")}

\* hash(v) succeeds; a list or a dict is unhashable
Hashable(v) == ~IsList(v) /\ ~IsDict(v)

Nothing == [yield |-> <<>>, task |-> <<>>, raised |-> <<>>]

\* asyncio.create_task(self.emit_status(...)) with n items yielded so far: the task, or
\* nothing when no event loop is running here (RuntimeError, swallowed)
CreateTask(level, done, n) ==
    IF input.loop_running
    THEN << [level |-> level, done |-> done, after |-> n, ran |-> FALSE] >>
    ELSE <<>>

\* a plausible slip: create_task is called outside a try, so that its RuntimeError where
\* no event loop is running reaches the handler at line 638
Dispatch_NoTry(level, done, n) ==
    IF input.loop_running
    THEN [Nothing EXCEPT !.task = CreateTask(level, done, n)]
    ELSE [Nothing EXCEPT !.raised = <<"no running event loop">>]

\* lines 601-605: the notification is handed to a task and never awaited here
Dispatch(level, done, n) == [Nothing EXCEPT !.task = CreateTask(level, done, n)]

\* what the loop body at lines 570-619 does with one line, n items yielded so far
LineEffect(raw_line, n) ==
    LET line == Strip(raw_line)
    IN  IF line = "" THEN Nothing
        ELSE IF ~StartsWith(line, "data:") THEN Nothing
        ELSE
        LET json_data == Strip(DropFirst(line, 5))
            data == JsonLoads(json_data)
        IN  IF json_data = "" THEN Nothing
            ELSE IF data = JSONDecodeError THEN Nothing
            ELSE IF IsDict(data) /\ GetOrNone(data, "event") = S("token")
            THEN LET token == Get(data, "data", S(""))
                 IN  IF Truthy(token) THEN [Nothing EXCEPT !.yield = <<token>>] ELSE Nothing
            ELSE IF IsDict(data) /\ ~Hashable(GetOrNone(data, "event"))
            THEN [Nothing EXCEPT !.raised = <<"unhashable type: 'list'">>]
            ELSE IF IsDict(data) /\ GetOrNone(data, "event") \in SideChannelEvents
            THEN LET desc == Or(Or(Or(GetOrNone(data, "data"), GetOrNone(data, "message")),
                                   GetOrNone(data, "text")), S(""))
                     level == IF GetOrNone(data, "event") = S("error") THEN "error" ELSE "info"
                 IN  IF input.emitter # "none" /\ Truthy(desc)
                     THEN Dispatch(level, GetOrNone(data, "event") = S("end"), n)
                     ELSE Nothing
            ELSE IF IsStr(data) THEN [Nothing EXCEPT !.yield = <<data>>]
            ELSE Nothing

\* a plausible slip: no final status when the line source is exhausted
FinalTask_Missing(n) == <<>>

\* lines 621-626: the final status once the line source is exhausted
FinalTask(n) == IF input.emitter # "none" THEN CreateTask("info", TRUE, n) ELSE <<>>

Resumed(g, pos, item, ts) == [gen |-> g, consumed |-> pos, item |-> item, tasks |-> ts]

\* a plausible slip: the error of the line source is not caught and reaches the consumer
OnSourceError_Escapes(kind, pos, ts) == Resumed("raised", pos, <<>>, ts)

\* lines 628-642: the line source raises after pos lines: one diagnostic is yielded
OnSourceError(kind, pos, ts) ==
    IF kind = "ReadTimeout"
    THEN Resumed("after_read_timeout", pos, <<S(ErrStreamTimeout)>>, ts)
    ELSE Resumed("after_exception", pos, <<S(ErrStreamError("connection broken"))>>, ts)

\* the generator resumed with pos lines read and tasks ts created runs to its next yield
\* or to its end
RECURSIVE Resume(_, _)
Resume(pos, ts) ==
    IF input.failure.kind # "none" /\ input.failure.after = pos
    THEN OnSourceError(input.failure.kind, pos, ts)
    ELSE IF pos = Len(input.lines)
    THEN Resumed("closed", pos, <<>>, ts \o FinalTask(Len(yielded)))
    ELSE LET effect == LineEffect(input.lines[pos + 1], Len(yielded))
         IN  IF effect.raised # <<>>
             THEN Resumed("after_exception", pos + 1,
                          <<S(ErrStreamError(effect.raised[1]))>>, ts)
             ELSE IF effect.yield # <<>>
             THEN Resumed("running", pos + 1, effect.yield, ts \o effect.task)
             ELSE Resume(pos + 1, ts \o effect.task)

\* the consumer asks the generator for its next item
StreamNext ==
    /\ scenario = "pipe"
    /\ gen \in {"created", "running", "after_read_timeout", "after_exception"}
    /\ IF gen \in {"created", "running"}
       THEN LET r == Resume(consumed, tasks)
            IN  /\ gen' = r.gen
                /\ consumed' = r.consumed
                /\ yielded' = yielded \o r.item
                /\ tasks' = r.tasks
       ELSE /\ gen' = "closed"
            /\ UNCHANGED <<consumed, yielded, tasks>>
    /\ UNCHANGED <<scenario, pc, valves, input, output, ioVars>>

\* the event loop runs the oldest emit_status task that has not run yet
StreamTask ==
    /\ scenario = "pipe"
    /\ \E i \in 1..Len(tasks) :
          /\ ~tasks[i].ran
          /\ \A j \in 1..(i - 1) : tasks[j].ran
          /\ tasks' = [tasks EXCEPT ![i].ran = TRUE]
          /\ \E t \in now..Min(now + 1, MaxTime) :
                /\ now' = t
                /\ SetStatus(emit_status(StatusState, input.emitter, tasks[i].level,
                                         tasks[i].done, t))
    /\ UNCHANGED <<scenario, pc, valves, input, output, request, response,
                   gen, consumed, yielded>>

-----------------------------------------------------------------------------
(* Inputs of the streaming decoder *)

MaxLines == 3

SseLine ==
    [ TokenHel    |-> "data: " \o JsonText.TokenHel,
      TokenLo     |-> "data:" \o JsonText.TokenLo \o "  ",
      TokenEmpty  |-> "data: " \o JsonText.TokenEmpty,
      End         |-> "data: " \o JsonText.End,
      EndDone     |-> "data: " \o JsonText.EndDone,
      Start       |-> "data: " \o JsonText.Start,
      Error       |-> "data: " \o JsonText.Error,
      NotJson     |-> "data: not-json",
      Blank       |-> "  ",
      NoPrefix    |-> "event: token",
      NoPayload   |-> "data:",
      BareString  |-> "data: " \o JsonText.BareString,
      EmptyString |-> "data: " \o JsonText.EmptyString,
      FinalText   |-> "data: " \o JsonText.TextOk,
      EventList   |-> "data: " \o JsonText.EventList,
      OtherEvent  |-> "data: " \o JsonText.OtherEvent ]

LineKinds == {SseLine[k] : k \in DOMAIN SseLine}

FailureLines == {SseLine.TokenHel, SseLine.TokenLo, SseLine.Start, SseLine.NotJson, SseLine.EventList}

StreamBody == D([model |-> S("flowise_chat.flow1"), messages |-> L(<<Message.UserHi>>)])

StreamCall(emitter, v) == PipeInput(StreamBody, D([chat_id |-> S("chat-1")]), emitter, v)

\* the line kinds that are combined in every order
CoreLines ==
    { SseLine.TokenHel, SseLine.TokenLo, SseLine.End, SseLine.Start, SseLine.NotJson,
      SseLine.BareString, SseLine.FinalText, SseLine.EventList }

\* event streams read to their end: the core kinds in every order, and every kind alone
\* and between two tokens
DecodeInputs ==
    { [call |-> StreamCall("ok", DefaultValves), lines |-> q, failure |-> NoFailure,
       loop_running |-> TRUE] :
        q \in SeqsUpTo(CoreLines, MaxLines)
              \cup {<<k>> : k \in LineKinds}
              \cup {<<SseLine.TokenHel, k, SseLine.TokenLo>> : k \in LineKinds} }

\* the line source raises after some lines
FailureInputs ==
    UNION { { [call |-> StreamCall("ok", DefaultValves), lines |-> q,
               failure |-> [kind |-> k, after |-> n], loop_running |-> TRUE] :
                k \in {"ReadTimeout", "ConnectionError"}, n \in 0..Len(q) } :
            q \in SeqsUpTo(FailureLines, MaxLines) }

SinkLines ==
    { <<SseLine.TokenHel, SseLine.TokenLo, SseLine.End>>, <<SseLine.TokenHel, SseLine.EndDone>>,
      <<SseLine.Start, SseLine.TokenHel, SseLine.Error>>, <<SseLine.End>> }

\* sinks and hosts of every kind
SinkInputs ==
    { [call |-> StreamCall(e, v), lines |-> q, failure |-> NoFailure, loop_running |-> l] :
        e \in {"none", "ok", "raises"}, q \in SinkLines, l \in BOOLEAN,
        v \in { DefaultValves, [DefaultValves EXCEPT !.enable_status_indicator = FALSE],
                [DefaultValves EXCEPT !.emit_interval = 0] } }

StreamInputs == DecodeInputs \cup FailureInputs \cup SinkInputs

InitStream ==
    /\ scenario = "pipe"
    /\ pc = "call"
    /\ \E x \in StreamInputs :
          /\ input = CallInput(x.call, x.lines, x.failure, x.loop_running)
          /\ valves = x.call.valves
    /\ FreshAdapter

NextStream ==
    \/ PipeValidate
    \/ PipePostOkStream
    \/ StreamNext
    \/ StreamTask

SpecStream == InitStream /\ [][NextStream]_vars

\* the JSON value a line carries after its data: prefix, JSONDecodeError when it has none
PayloadOf(raw_line) ==
    IF StartsWith(Strip(raw_line), "data:")
    THEN JsonLoads(Strip(DropFirst(Strip(raw_line), 5)))
    ELSE JSONDecodeError

IsEvent(v, tag) == IsDict(v) /\ "event" \in DOMAIN v.d /\ v.d.event = S(tag)

\* the item claim C7 gives a line: the data of a token event with a non-empty data
\* field, a bare string itself, nothing for every other line
ClaimedItem(raw_line) ==
    LET v == PayloadOf(raw_line)
    IN  IF IsEvent(v, "token") /\ "data" \in DOMAIN v.d /\ v.d.data # S("") THEN <<v.d.data>>
        ELSE IF IsStr(v) THEN <<v>>
        ELSE <<>>

ClaimedItems(lines) == Flatten([i \in 1..Len(lines) |-> ClaimedItem(lines[i])])

Exhausted == gen = "closed" /\ input.failure = NoFailure

\* C7: for a finite line source that raises no error, the items yielded are exactly, in
\* line order, the data of each token event with a non-empty data field and each bare
\* string; every other line contributes nothing and does not stop the stream.
C7_YieldsExactlyTokens ==
    Exhausted => yielded = ClaimedItems(input.lines)

\* token events followed by one end event
TokensThenEnd(lines) ==
    /\ Len(lines) >= 1
    /\ IsEvent(PayloadOf(lines[Len(lines)]), "end")
    /\ \A i \in 1..(Len(lines) - 1) : IsEvent(PayloadOf(lines[i]), "token")

\* the end event carries a description: a non-empty data, message or text field
EndHasDescription(lines) ==
    LET v == PayloadOf(lines[Len(lines)])
    IN  \E k \in {"data", "message", "text"} : k \in DOMAIN v.d /\ Truthy(v.d[k])

TerminalTasks == {i \in 1..Len(tasks) : tasks[i].done}
TerminalEvents == {i \in 1..Len(emitted) : emitted[i].done}
AllTasksRan == \A i \in 1..Len(tasks) : tasks[i].ran

\* a stream of token events and one end event, read to its end where an event loop is
\* running, with a working status sink and status indicators enabled
TokenStreamDone ==
    /\ Exhausted
    /\ TokensThenEnd(input.lines)
    /\ input.emitter = "ok"
    /\ valves.enable_status_indicator
    /\ input.loop_running

\* C8 as stated: for tokens followed by one end event, whatever the end event's payload,
\* the token texts are yielded in order and exactly one terminal notification is
\* produced, after the last token.
C8_ExactlyOneTerminal ==
    TokenStreamDone =>
        /\ yielded = ClaimedItems(input.lines)
        /\ Cardinality(TerminalTasks) = 1
        /\ \A i \in TerminalTasks : tasks[i].after = Len(yielded)

\* C8 amended: the token texts are yielded in order; after the last token one terminal
\* notification is dispatched when the end event carries no description (the final one
\* on exhaustion) and two when it carries one (one for the end event, then the final
\* one); the sink gets each of them once its task has run.
C8_TerminalNotifications ==
    TokenStreamDone =>
        /\ yielded = ClaimedItems(input.lines)
        /\ Cardinality(TerminalTasks) = (IF EndHasDescription(input.lines) THEN 2 ELSE 1)
        /\ \A i \in TerminalTasks : tasks[i].after = Len(yielded)
        /\ AllTasksRan => Cardinality(TerminalEvents) = Cardinality(TerminalTasks)

\* the stream "Hel", "lo", end: two tokens and one terminal status, delivered
C8_Witness ==
    /\ TokenStreamDone
    /\ input.lines = <<SseLine.TokenHel, SseLine.TokenLo, SseLine.End>>
    /\ yielded = <<S("Hel"), S("lo")>>
    /\ AllTasksRan
    /\ Cardinality(TerminalEvents) = 1

TimedOut == gen = "after_read_timeout"

\* C9: when the line source raises a read-timeout after any number of lines, the
\* generator has yielded the tokens decoded before it and then exactly one diagnostic
\* text; the next request for an item ends the generator: nothing more is yielded and
\* no exception reaches the consumer.
C9_ReadTimeoutEndsWithOneDiagnostic ==
    /\ [](TimedOut =>
            /\ consumed = input.failure.after
            /\ yielded = ClaimedItems(SubSeq(input.lines, 1, input.failure.after))
                            \o <<S(ErrStreamTimeout)>>)
    /\ [][(TimedOut \/ gen = "closed") =>
             (yielded' = yielded /\ gen' \in {gen, "closed"})]_vars
    /\ [](gen # "raised")

\* the timeout comes after a status event, a token and an undecodable line
C9_Witness ==
    /\ gen = "closed"
    /\ input.lines = <<SseLine.Start, SseLine.TokenHel, SseLine.NotJson>>
    /\ input.failure = [kind |-> "ReadTimeout", after |-> 3]
    /\ yielded = <<S("Hel"), S(ErrStreamTimeout)>>

\* the text the handler at line 638 yields for a line whose event tag cannot be hashed
UnhashableEvent(raw_line) ==
    LET v == PayloadOf(raw_line)
    IN  /\ IsDict(v)
        /\ "event" \in DOMAIN v.d
        /\ IsList(v.d.event) \/ IsDict(v.d.event)

\* the items a consumer gets from the lines after the first pos of them and from the
\* error the line source raises, as a function of the line source alone
RECURSIVE SourceItems(_, _, _)
SourceItems(lines, failure, pos) ==
    IF failure # NoFailure /\ failure.after = pos
    THEN << S(IF failure.kind = "ReadTimeout" THEN ErrStreamTimeout
              ELSE ErrStreamError("connection broken")) >>
    ELSE IF pos = Len(lines) THEN <<>>
    ELSE IF UnhashableEvent(lines[pos + 1])
    THEN <<S(ErrStreamError("unhashable type: 'list'"))>>
    ELSE ClaimedItem(lines[pos + 1]) \o SourceItems(lines, failure, pos + 1)

IsPrefix(p, q) == Len(p) <= Len(q) /\ SubSeq(q, 1, Len(p)) = p

\* C13: the items the streaming decoder yields are a function of the line source alone:
\* they are the same whether the status sink succeeds, raises, is absent, is never run to
\* completion, or its task cannot be scheduled; a notification never ends the stream
\* with an error of its own.
C13_TokensIndependentOfSink ==
    (PipeScenario /\ gen # "none") =>
        /\ IsPrefix(yielded, SourceItems(input.lines, input.failure, 0))
        /\ gen = "closed" => yielded = SourceItems(input.lines, input.failure, 0)
        /\ gen # "raised"

\* the sink has raised on both notifications of the stream and the token came through
C13_Witness ==
    /\ PipeScenario
    /\ gen = "closed"
    /\ input.emitter = "raises"
    /\ input.lines = <<SseLine.Start, SseLine.TokenHel, SseLine.Error>>
    /\ Len(tasks) = 3
    /\ AllTasksRan
    /\ emitted = <<>>
    /\ yielded = <<S("Hel")>>

-----------------------------------------------------------------------------
(* emit_status calls whose awaits on the sink overlap *)

MaxEmitCalls == 3

\* lines 222-226: the test that lets a call through to the sink
EmitAllowed(emitter, done, current_time) ==
    /\ emitter # "none"
    /\ valves.enable_status_indicator
    /\ (current_time - last_emit_time >= valves.emit_interval \/ done)

InitEmit ==
    /\ scenario = "emit"
    /\ pc = "idle"
    /\ valves \in {[DefaultValves EXCEPT !.emit_interval = i, !.enable_status_indicator = e] :
                     i \in 0..MaxTime, e \in BOOLEAN}
    /\ input \in {[emitter |-> e] : e \in {"none", "ok", "raises"}}
    /\ FreshAdapter

\* lines 221-228: a task or a pipe() invocation enters emit_status; the call reads the
\* clock and last_emit_time, and either returns at once or hands its event to the sink
\* and waits for it in the await of line 228
EmitCall ==
    /\ scenario = "emit"
    /\ Len(status_calls) < MaxEmitCalls
    /\ \E t \in now..Min(now + 1, MaxTime), level \in {"info", "error"}, done \in BOOLEAN :
          /\ now' = t
          /\ status_calls' = Append(status_calls, [level |-> level, done |-> done])
          /\ IF EmitAllowed(input.emitter, done, t)
             THEN /\ tasks' = Append(tasks, [level |-> level, done |-> done,
                                             current_time |-> t, awaiting |-> TRUE])
                  /\ emitted' = IF input.emitter = "ok"
                                THEN Append(emitted, [level |-> level, done |-> done, time |-> t])
                                ELSE emitted
             ELSE UNCHANGED <<tasks, emitted>>
    /\ UNCHANGED <<scenario, pc, valves, input, output, request, response, last_emit_time,
                   gen, consumed, yielded>>

\* lines 228-242: the sink's await of one waiting call ends; line 239 stores the time the
\* call read at its start, unless the sink raised
SinkReturns ==
    /\ scenario = "emit"
    /\ \E i \in 1..Len(tasks) :
          /\ tasks[i].awaiting
          /\ tasks' = [tasks EXCEPT ![i].awaiting = FALSE]
          /\ last_emit_time' = IF input.emitter = "ok" THEN tasks[i].current_time
                               ELSE last_emit_time
    /\ \E t \in now..Min(now + 1, MaxTime) : now' = t
    /\ UNCHANGED <<scenario, pc, valves, input, output, request, response, status_calls,
                   emitted, gen, consumed, yielded>>

NextEmit == EmitCall \/ SinkReturns

SpecEmit == InitEmit /\ [][NextEmit]_vars

\* the events the sink was given by calls with done=false, and by calls with done=true
Progress == {i \in 1..Len(emitted) : ~emitted[i].done}
TerminalGiven == {i \in 1..Len(emitted) : emitted[i].done}

\* C11: on one adapter instance, for any sequence of emit_status calls, overlapping ones
\* included, the sink is given non-terminal events at most once per emit_interval, and
\* every done=true call is given to a present sink with indicators enabled.
C11_RateLimited ==
    scenario = "emit" =>
        /\ \A i, j \in Progress :
              i < j => emitted[j].time - emitted[i].time >= valves.emit_interval
        /\ (input.emitter = "ok" /\ valves.enable_status_indicator) =>
              Cardinality(TerminalGiven) = Cardinality(TerminalCalls)

-----------------------------------------------------------------------------
(* pipe() and the generator it returns, over the inputs of both *)

InitAdapter == InitPipe \/ InitStream

NextAdapter == NextPipe \/ StreamNext \/ StreamTask

SpecAdapter == InitAdapter /\ [][NextAdapter]_vars

\* the call fails: a check of lines 406-433 fails, the request cannot be built, or the
\* POST does not bring a successful reply
PipeFailed ==
    \/ ~ChecksPass
    \/ ~IsStr(Get(input.body, "model", S("")))
    \/ (response # NoResponse /\ response.kind # "ok")

IsDiagnostic(v) == IsStr(v) /\ v.s # ""

\* C12: no exception escapes the adapter: on every failure pipe() returns a diagnostic
\* string, and when the line source of a stream raises, the generator pipe() returned
\* yields a diagnostic string and ends instead of raising.
C12_NoExceptionEscapes ==
    /\ output # Raised
    /\ gen # "raised"
    /\ (PipeScenario /\ pc = "done" /\ PipeFailed) =>
          (output.kind = "returned" /\ IsDiagnostic(output.value))
    /\ (input.failure # NoFailure /\ gen \in {"after_read_timeout", "after_exception", "closed"}) =>
          /\ yielded # <<>>
          /\ IsStr(yielded[Len(yielded)])
          /\ StartsWith(yielded[Len(yielded)].s, "Streaming ")

\* the POST raises an error of no handled class: the catch-all handler returns its text
C12_Witness ==
    /\ PipeScenario
    /\ pc = "done"
    /\ response = [kind |-> "InvalidSchema"]
    /\ output = Returned(S(ErrUnexpected("No connection adapters were found")))

====
